---- MODULE Spec2Model ----
(***************************************************************************)
(* ABOM Risk Scoring Engine (backend/main.py).                             *)
(*                                                                         *)
(* The program is a FastAPI application with two POST handlers,            *)
(* calculate_risk and download_report, over a set of pure scoring          *)
(* functions.  Python values are modelled as tagged records, Python        *)
(* exceptions as results of the form [exc |-> name], floats of the score   *)
(* pipeline as integers counting millionths, and the FLOPs numbers as      *)
(* decimal floats m * 10^e.                                                *)
(***************************************************************************)
EXTENDS Integers, Sequences, FiniteSets, TLC

VARIABLES
    requests,                       \* the HTTP requests: position, endpoint, uploaded file, response, handler frame
    call,                           \* a direct call of determine_uart_tier (as a unit test makes it)
    TIER_4_CAPABILITY_FLAGS,        \* module global, main.py:24
    SYSTEMIC_RISK_FLOPS_THRESHOLD   \* module global, main.py:21

vars == <<requests, call, TIER_4_CAPABILITY_FLAGS, SYSTEMIC_RISK_FLOPS_THRESHOLD>>

----------------------------------------------------------------------------
(* Python values *)

None == [t |-> "NoneType"]

Bool(b) == [t |-> "bool", b |-> b]

\* a finite int or float: m * 10^e, m >= 0, no trailing zero in m
Number(m, e) == [t |-> "number", m |-> m, e |-> e]

\* float("inf"): what a literal beyond the double range parses to
Infinity == [t |-> "number", inf |-> TRUE]

Str(s) == [t |-> "str", s |-> s]

List(xs) == [t |-> "list", xs |-> xs]

\* d: a function from key strings to values
Dict(d) == [t |-> "dict", d |-> d]

EmptyDict == Dict([k \in {} |-> None])

EmptyList == List(<<>>)

IsFinite(v) == "inf" \notin DOMAIN v

\* bool(v): Python truthiness
Truthy(v) ==
    CASE v.t = "NoneType" -> FALSE
      [] v.t = "bool" -> v.b
      [] v.t = "number" -> ~IsFinite(v) \/ v.m # 0
      [] v.t = "str" -> v.s # ""
      [] v.t = "list" -> Len(v.xs) > 0
      [] v.t = "dict" -> DOMAIN v.d # {}

\* dict.get(key, default), for v a dict
get(v, key, default) == IF key \in DOMAIN v.d THEN v.d[key] ELSE default

\* results of a call: a returned value or a raised exception
Return(v) == [ret |-> v]

Raise(e) == [exc |-> e]

Raised(r) == "exc" \in DOMAIN r

----------------------------------------------------------------------------
(* str methods *)

UpperCase == "ABCDEFGHIJKLMNOPQRSTUVWXYZ"

LowerCase == "abcdefghijklmnopqrstuvwxyz"

Digits == "0123456789"

\* the 1-based position of character c in alphabet, 0 when absent
IndexIn(c, alphabet) ==
    IF \E i \in 1..Len(alphabet) : SubSeq(alphabet, i, i) = c
    THEN CHOOSE i \in 1..Len(alphabet) : SubSeq(alphabet, i, i) = c
    ELSE 0

MapChar(c, from, to) ==
    LET i == IndexIn(c, from) IN IF i = 0 THEN c ELSE SubSeq(to, i, i)

RECURSIVE lower(_)
\* str.lower()
lower(s) ==
    IF s = "" THEN ""
    ELSE MapChar(SubSeq(s, 1, 1), UpperCase, LowerCase) \o lower(SubSeq(s, 2, Len(s)))

RECURSIVE upper(_)
\* str.upper()
upper(s) ==
    IF s = "" THEN ""
    ELSE MapChar(SubSeq(s, 1, 1), LowerCase, UpperCase) \o upper(SubSeq(s, 2, Len(s)))

\* sub in s
Contains(sub, s) ==
    \E i \in 1..(Len(s) - Len(sub) + 1) : SubSeq(s, i, i + Len(sub) - 1) = sub

RECURSIVE replace(_, _)
\* s.replace(ch, ""), ch one character
replace(s, ch) ==
    IF s = "" THEN ""
    ELSE (IF SubSeq(s, 1, 1) = ch THEN "" ELSE SubSeq(s, 1, 1)) \o replace(SubSeq(s, 2, Len(s)), ch)

\* x in [..]: membership in a list of strings
InList(x, list) == \E i \in 1..Len(list) : list[i] = x

----------------------------------------------------------------------------
(* numbers *)

RECURSIVE NumDigits(_)
NumDigits(m) == IF m < 10 THEN 1 ELSE 1 + NumDigits(m \div 10)

RECURSIVE Normal(_, _)
\* m * 10^e without trailing zeros in m
Normal(m, e) ==
    IF m = 0 THEN Number(0, 0)
    ELSE IF m % 10 = 0 THEN Normal(m \div 10, e + 1)
    ELSE Number(m, e)

\* the largest decimal exponent of a finite double (1.79e308)
DoubleMaxExp == 308

\* the double a decimal literal m * 10^e denotes
Double(m, e) ==
    IF m # 0 /\ NumDigits(m) + e - 1 > DoubleMaxExp THEN Infinity ELSE Normal(m, e)

RECURSIVE Pow10(_)
Pow10(n) == IF n = 0 THEN 1 ELSE 10 * Pow10(n - 1)

\* a >= b on numbers
GreaterEq(a, b) ==
    IF ~IsFinite(a) THEN TRUE
    ELSE IF ~IsFinite(b) THEN FALSE
    ELSE IF b.m = 0 THEN TRUE
    ELSE IF a.m = 0 THEN FALSE
    ELSE LET ma == NumDigits(a.m) + a.e
             mb == NumDigits(b.m) + b.e
             w == IF NumDigits(a.m) > NumDigits(b.m) THEN NumDigits(a.m) ELSE NumDigits(b.m)
         IN IF ma # mb THEN ma > mb
            ELSE a.m * Pow10(w - NumDigits(a.m)) >= b.m * Pow10(w - NumDigits(b.m))

AllDigits(s) == \A i \in 1..Len(s) : IndexIn(SubSeq(s, i, i), Digits) # 0

RECURSIVE ParseInt(_)
ParseInt(s) ==
    IF s = "" THEN 0
    ELSE 10 * ParseInt(SubSeq(s, 1, Len(s) - 1)) + IndexIn(SubSeq(s, Len(s), Len(s)), Digits) - 1

\* the position of the first character of s that is in chars, 0 when none
FirstOf(s, chars) ==
    IF \E i \in 1..Len(s) : IndexIn(SubSeq(s, i, i), chars) # 0
    THEN CHOOSE i \in 1..Len(s) :
            /\ IndexIn(SubSeq(s, i, i), chars) # 0
            /\ \A j \in 1..(i - 1) : IndexIn(SubSeq(s, j, j), chars) = 0
    ELSE 0

\* float(s) for a str: digits [. digits] [e [+|-] digits]; anything else is a ValueError
float_of_str(s) ==
    LET ePos == FirstOf(s, "eE")
        mant == IF ePos = 0 THEN s ELSE SubSeq(s, 1, ePos - 1)
        expo == IF ePos = 0 THEN "0" ELSE SubSeq(s, ePos + 1, Len(s))
        sign == IF expo # "" /\ SubSeq(expo, 1, 1) = "-" THEN -1 ELSE 1
        expDigits == IF expo # "" /\ IndexIn(SubSeq(expo, 1, 1), "+-") # 0
                     THEN SubSeq(expo, 2, Len(expo)) ELSE expo
        dot == FirstOf(mant, ".")
        whole == IF dot = 0 THEN mant ELSE SubSeq(mant, 1, dot - 1)
        frac == IF dot = 0 THEN "" ELSE SubSeq(mant, dot + 1, Len(mant))
    IN IF \/ whole \o frac = ""
          \/ ~AllDigits(whole) \/ ~AllDigits(frac)
          \/ expDigits = "" \/ ~AllDigits(expDigits)
       THEN Raise("ValueError")
       ELSE Return(Double(ParseInt(whole \o frac), sign * ParseInt(expDigits) - Len(frac)))

\* float(x)
float(x) ==
    CASE x.t = "number" -> Return(x)
      [] x.t = "bool" -> Return(Number(IF x.b THEN 1 ELSE 0, 0))
      [] x.t = "str" -> float_of_str(x.s)
      [] OTHER -> Raise("TypeError")

----------------------------------------------------------------------------
(* iteration: for x in v *)

Iterable(v) == v.t \in {"list", "str", "dict"}

RECURSIVE SetToSeq(_)
SetToSeq(S) ==
    IF S = {} THEN <<>>
    ELSE LET x == CHOOSE x \in S : TRUE IN <<x>> \o SetToSeq(S \ {x})

\* the items a for loop over v visits: list items, the characters of a str, the keys of a dict
Items(v) ==
    CASE v.t = "list" -> v.xs
      [] v.t = "str" -> [i \in 1..Len(v.s) |-> Str(SubSeq(v.s, i, i))]
      [] v.t = "dict" -> LET keys == SetToSeq(DOMAIN v.d) IN [i \in 1..Len(keys) |-> Str(keys[i])]

----------------------------------------------------------------------------
(* main.py:31-43 *)

extract_flops(model_core) ==
    IF model_core.t # "dict" THEN Raise("AttributeError")
    ELSE LET training_flops == get(model_core, "training_flops", None)
             flops == IF Truthy(training_flops) THEN training_flops
                      ELSE get(model_core, "flops", None)
         IN  IF flops = None THEN Return(None)
             ELSE IF flops.t = "str"
                  THEN (IF Raised(float_of_str(flops.s)) THEN Return(None)
                        ELSE float_of_str(flops.s))
             ELSE float(flops)

----------------------------------------------------------------------------
(* main.py:46-67 *)

\* lines 57-61: the name a tool entry is scanned under
ToolName(tool) ==
    IF tool.t = "dict"
    THEN LET name == get(tool, "name", Str(""))
         IN IF name.t = "str" THEN Return(lower(name.s)) ELSE Raise("AttributeError")
    ELSE IF tool.t = "str" THEN Return(lower(tool.s))
    ELSE Return("")

Stripped(s) == replace(replace(s, "_"), "-")

\* lines 63-65
FlagInName(tool_name) ==
    \E i \in 1..Len(TIER_4_CAPABILITY_FLAGS) :
        Contains(Stripped(TIER_4_CAPABILITY_FLAGS[i]), Stripped(tool_name))

RECURSIVE ScanTools(_, _)
\* lines 56-67: the loop over tools from item i on; it returns at the first match and
\* raises at the first ill-typed name
ScanTools(tools, i) ==
    IF i > Len(tools) THEN Return(FALSE)
    ELSE LET tool_name == ToolName(tools[i])
         IN  IF Raised(tool_name) THEN tool_name
             ELSE IF FlagInName(tool_name.ret) THEN Return(TRUE)
             ELSE ScanTools(tools, i + 1)

check_tier4_capability_flags(agency_profile) ==
    IF agency_profile.t # "dict" THEN Raise("AttributeError")
    ELSE LET capability_flags == get(agency_profile, "capability_flags", EmptyList)
             tools == get(agency_profile, "tools", EmptyList)
         IN  IF /\ capability_flags.t = "list"
                /\ \E i \in 1..Len(capability_flags.xs) :
                      /\ capability_flags.xs[i].t = "str"
                      /\ InList(lower(capability_flags.xs[i].s), TIER_4_CAPABILITY_FLAGS)
             THEN Return(TRUE)
             ELSE IF ~Iterable(tools) THEN Raise("TypeError")
             ELSE ScanTools(Items(tools), 1)

----------------------------------------------------------------------------
(* main.py:70-120 *)

StateChangingKeywords == <<"write", "exec", "delete", "modify", "create", "update", "remove">>

CriticalKeywords == <<"replicat", "cbrn", "bioweapon", "nuclear", "weapon", "critical_infra">>

\* lines 89-106 for one tool: what it raises, or the two signals it gives
ToolSignals(tool) ==
    LET tool_name == ToolName(tool)
        permission == IF tool.t = "dict" THEN get(tool, "permission", Str("")) ELSE Str("")
    IN  IF Raised(tool_name) THEN tool_name
        ELSE IF permission.t # "str" THEN Raise("AttributeError")
        ELSE Return([
            state_changing |->
                \/ tool.t = "dict" /\ InList(lower(permission.s), StateChangingKeywords)
                \/ /\ tool.t = "str"
                   /\ \E k \in 1..Len(StateChangingKeywords) :
                          Contains(StateChangingKeywords[k], tool_name.ret),
            critical |->
                \E k \in 1..Len(CriticalKeywords) : Contains(CriticalKeywords[k], tool_name.ret)])

calculate_agency_score(agency_profile) ==
    IF agency_profile.t # "dict" THEN Raise("AttributeError")
    ELSE LET tools == get(agency_profile, "tools", EmptyList)
             scope == get(agency_profile, "scope", Str(""))
         IN  IF ~Truthy(tools) THEN Return(1)
             \* len(tools)
             ELSE IF ~Iterable(tools) THEN Raise("TypeError")
             ELSE LET items == Items(tools)
                      sig == [i \in 1..Len(items) |-> ToolSignals(items[i])]
                  IN  IF \E i \in 1..Len(items) : Raised(sig[i])
                      THEN sig[CHOOSE i \in 1..Len(items) :
                                  Raised(sig[i]) /\ \A j \in 1..(i - 1) : ~Raised(sig[j])]
                      ELSE IF scope.t # "str" THEN Raise("AttributeError")
                      ELSE LET sc == lower(scope.s)
                               has_state_changing ==
                                   \/ \E i \in 1..Len(items) : sig[i].ret.state_changing
                                   \/ Contains("state-changing", sc)
                                   \/ Contains("state changing", sc)
                               has_critical_capability ==
                                   \/ \E i \in 1..Len(items) : sig[i].ret.critical
                                   \/ Contains("critical", sc)
                                   \/ Contains("dangerous", sc)
                           IN  IF has_critical_capability THEN Return(6)
                               ELSE IF has_state_changing THEN Return(4)
                               ELSE Return(2)

----------------------------------------------------------------------------
(* main.py:123-141 *)

calculate_autonomy_score(autonomy_leash) ==
    LET mode == IF autonomy_leash.t = "dict" THEN get(autonomy_leash, "mode", Str(""))
                ELSE IF autonomy_leash.t = "str" THEN autonomy_leash
                ELSE Str("")
    IN  IF mode.t # "str" THEN Raise("AttributeError")
        ELSE LET leash == upper(mode.s)
             IN  IF leash = "HITL" THEN Return(1)
                 ELSE IF leash = "HOTL" THEN Return(2)
                 ELSE IF leash = "HOOTL" THEN Return(3)
                 ELSE Return(1)

----------------------------------------------------------------------------
(* main.py:144-167 *)

\* a faulty variant of calculate_persistence_score: memory_type is consulted before retention
calculate_persistence_score_memory_first(persistence_layer) ==
    IF persistence_layer.t # "dict" THEN Raise("AttributeError")
    ELSE LET mt == get(persistence_layer, "memory_type", Str(""))
             rt == get(persistence_layer, "retention", Str(""))
         IN  IF mt.t # "str" \/ rt.t # "str" THEN Raise("AttributeError")
             ELSE LET memory_type == lower(mt.s)
                      retention == lower(rt.s)
                  IN  IF memory_type = "" \/ InList(memory_type, <<"none", "ephemeral", "temporary">>)
                      THEN Return(0)
                      ELSE IF InList(memory_type, <<"long-term", "long_term", "long", "persistent",
                                                    "vector-db", "vector_db">>)
                      THEN Return(2)
                      ELSE IF InList(memory_type, <<"session", "temporary", "ephemeral">>)
                      THEN Return(1)
                      ELSE IF InList(retention, <<"session", "session-only", "temporary", "short">>)
                      THEN Return(1)
                      ELSE IF InList(retention, <<"cross-session", "cross_session", "long-term",
                                                  "long_term", "long", "permanent">>)
                      THEN Return(2)
                      ELSE Return(0)

calculate_persistence_score(persistence_layer) ==
    IF persistence_layer.t # "dict" THEN Raise("AttributeError")
    ELSE LET mt == get(persistence_layer, "memory_type", Str(""))
             rt == get(persistence_layer, "retention", Str(""))
         IN  IF mt.t # "str" \/ rt.t # "str" THEN Raise("AttributeError")
             ELSE LET memory_type == lower(mt.s)
                      retention == lower(rt.s)
                  IN  IF memory_type = "" \/ InList(memory_type, <<"none", "ephemeral", "temporary">>)
                      THEN Return(0)
                      ELSE IF InList(retention, <<"session", "session-only", "temporary", "short">>)
                      THEN Return(1)
                      ELSE IF InList(retention, <<"cross-session", "cross_session", "long-term",
                                                  "long_term", "long", "permanent">>)
                      THEN Return(2)
                      ELSE IF InList(memory_type, <<"long-term", "long_term", "long", "persistent",
                                                    "vector-db", "vector_db">>)
                      THEN Return(2)
                      ELSE IF InList(memory_type, <<"session", "temporary", "ephemeral">>)
                      THEN Return(1)
                      ELSE Return(0)

----------------------------------------------------------------------------
(* floats of the score pipeline: integers counting millionths *)

ONE == 1000 * 1000

\* x * (num / den), for the literals 0.9 = 9/10 and 0.85 = 85/100
Scaled(x, num, den) == (x * num) \div den

\* the product of two floats, in millionths, computed in three limbs to stay within 32 bits
Product(a, b) ==
    LET aq == a \div 1000
        ar == a % 1000
        bq == b \div 1000
        br == b % 1000
        t == aq * br + ar * bq
    IN  aq * bq + t \div 1000 + ((t % 1000) * 1000 + ar * br) \div ONE

\* a faulty variant of exp: math.expm1 in place of math.exp
exp_expm1(p) ==
    CASE p = 0 -> 0
      [] p = 1 -> 1718282
      [] p = 2 -> 6389056

\* math.exp(p) for the persistence scores
exp(p) ==
    CASE p = 0 -> 1000000
      [] p = 1 -> 2718282
      [] p = 2 -> 7389056

\* The exact decimal ties of round(score, 2) among the scores the pipeline produces are
\* 0.765 and 2.295; the double nearest 2.295 lies below the tie (round gives 2.29), the
\* double nearest 0.765 rounds to 0.77.
BelowTie == {2295000}

\* round(x, ndigits) for ndigits in 2..3, result in millionths
round(x, ndigits) ==
    LET unit == ONE \div Pow10(ndigits)
        q == x \div unit
        r == x % unit
    IN  IF 2 * r > unit \/ (2 * r = unit /\ x \notin BelowTie) THEN (q + 1) * unit ELSE q * unit

\* a faulty variant of Max: min in place of max
Max_min(a, b) == IF a <= b THEN a ELSE b

Max(a, b) == IF a >= b THEN a ELSE b

----------------------------------------------------------------------------
(* main.py:170-194 *)

calculate_scaffolding_modifier(scaffolding) ==
    IF scaffolding.t # "dict" THEN Raise("AttributeError")
    ELSE LET mcp_flag == get(scaffolding, "mcp_used", None)
             orchestrator == get(scaffolding, "orchestrator", Str(""))
             sandboxed == get(scaffolding, "sandboxed", Bool(FALSE))
             sandbox_type == get(scaffolding, "sandbox_type", Str(""))
             circuit_breaker == get(scaffolding, "circuit_breaker", Bool(FALSE))
             kill_switch == get(scaffolding, "kill_switch", Bool(FALSE))
         IN  \* line 178: orchestrator is lower-cased only when mcp_used is falsy
             IF ~Truthy(mcp_flag) /\ orchestrator.t # "str" THEN Raise("AttributeError")
             ELSE IF sandbox_type.t # "str" THEN Raise("AttributeError")
             ELSE LET mcp_used == Truthy(mcp_flag) \/ lower(orchestrator.s) = "mcp"
                      has_sandbox ==
                          \/ Truthy(sandboxed)
                          \/ InList(lower(sandbox_type.s), <<"ephemeral", "isolated", "container", "vm">>)
                      has_circuit_breaker == Truthy(circuit_breaker) \/ Truthy(kill_switch)
                      m0 == ONE
                      m1 == IF mcp_used THEN Scaled(m0, 9, 10) ELSE m0
                      m2 == IF has_sandbox THEN Scaled(m1, 85, 100) ELSE m1
                      modifier == IF has_circuit_breaker THEN Scaled(m2, 9, 10) ELSE m2
                  IN  Return(Max(modifier, Scaled(ONE, 7, 10)))

----------------------------------------------------------------------------
(* main.py:197-217 *)

calculate_risk_score(agency, autonomy, persistence, scaffolding_modifier) ==
    LET base_score == agency * autonomy * exp(persistence)
    IN  Product(base_score, scaffolding_modifier)

\* a faulty variant of determine_uart_tier: the boundaries fall to the lower tier
determine_uart_tier_inclusive(risk_score) ==
    IF risk_score = 0 THEN 0
    ELSE IF risk_score <= 5 * ONE THEN 1
    ELSE IF risk_score <= 20 * ONE THEN 2
    ELSE IF risk_score <= 50 * ONE THEN 3
    ELSE 4

determine_uart_tier(risk_score) ==
    IF risk_score = 0 THEN 0
    ELSE IF risk_score < 5 * ONE THEN 1
    ELSE IF risk_score < 20 * ONE THEN 2
    ELSE IF risk_score < 50 * ONE THEN 3
    ELSE 4

----------------------------------------------------------------------------
(* the uploaded file, json and the responses *)

\* An uploaded file is one of
\*   [kind |-> "bytes"]             bytes that are not UTF-8
\*   [kind |-> "text"]              UTF-8 text that is not JSON
\*   [kind |-> "json", doc |-> v]   the JSON text of value v, its number literals as written

\* contents.decode('utf-8')
decode(contents) ==
    IF contents.kind = "bytes" THEN Raise("UnicodeDecodeError") ELSE Return(contents)

RECURSIVE Loaded(_)
\* the Python value of a JSON value: each number literal becomes its double
Loaded(v) ==
    CASE v.t = "number" -> Double(v.m, v.e)
      [] v.t = "list" -> List([i \in 1..Len(v.xs) |-> Loaded(v.xs[i])])
      [] v.t = "dict" -> Dict([k \in DOMAIN v.d |-> Loaded(v.d[k])])
      [] OTHER -> v

\* json.loads(text)
json_loads(text) ==
    IF text.kind = "text" THEN Raise("JSONDecodeError") ELSE Return(Loaded(text.doc))

RECURSIVE AllFinite(_)
AllFinite(v) ==
    CASE v.t = "number" -> IsFinite(v)
      [] v.t = "list" -> \A i \in 1..Len(v.xs) : AllFinite(v.xs[i])
      [] v.t = "dict" -> \A k \in DOMAIN v.d : AllFinite(v.d[k])
      [] OTHER -> TRUE

\* JSONResponse(content=...): the body is rendered on construction, with allow_nan=False;
\* the only floats of a response that can be infinite are those of the embedded document
JSONResponse(content) ==
    IF "abom_input" \in DOMAIN content /\ ~AllFinite(content.abom_input)
    THEN Raise("ValueError")
    ELSE Return([status |-> 200, content |-> content])

HTTPException(status_code, detail) == [status |-> status_code, detail |-> detail]

NoFrame == [k \in {} |-> None]

\* the first exception among the results of a sequence of calls
FirstRaised(calls) ==
    calls[CHOOSE i \in 1..Len(calls) : Raised(calls[i]) /\ \A j \in 1..(i - 1) : ~Raised(calls[j])]

AnyRaised(calls) == \E i \in 1..Len(calls) : Raised(calls[i])

\* f"{flops:.2e}": three significant digits and the exponent
Format2e(flops) ==
    IF ~IsFinite(flops) THEN [inf |-> TRUE]
    ELSE IF flops.m = 0 THEN [digits |-> 0, e |-> 0]
    ELSE LET n == NumDigits(flops.m)
         IN  IF n <= 3 THEN [digits |-> flops.m * Pow10(3 - n), e |-> flops.e + n - 1]
             ELSE [digits |-> (flops.m + Pow10(n - 3) \div 2) \div Pow10(n - 3), e |-> flops.e + n - 1]

FlopsReason(flops) ==
    [reason |-> "Training FLOPs exceeds systemic risk threshold (1e25)", flops |-> Format2e(flops)]

FlagsReason == [reason |-> "Contains Tier 4 capability flags (e.g., self-replication, CBRN)"]

----------------------------------------------------------------------------
(* json.loads(contents.decode('utf-8')), main.py:229 and 302 *)

loads_decoded(contents) ==
    IF Raised(decode(contents)) THEN decode(contents) ELSE json_loads(contents)

----------------------------------------------------------------------------
(* main.py:220-290: calculate_risk, from the end of `await file.read()` to its response.  Each  *)
(* part gives the response and, where the status is 200, the handler's locals (frame).  *)

\* the except clauses (lines 287-290): an exception that is not an HTTPException
calculate_risk_error(e) ==
    [response |-> HTTPException(500, "Error processing file: " \o e.exc), frame |-> NoFrame]

\* lines 275-285: the result and its response
calculate_risk_respond(abom_data, agency, autonomy, persistence, scaffolding_mod, risk_score, flops, flagged, tier, tier_4_reasons) ==
    LET sent == JSONResponse(
        [agency |-> agency,
          autonomy |-> autonomy,
          persistence |-> persistence,
          scaffolding_modifier |-> round(scaffolding_mod, 3),
          score |-> round(risk_score, 2),
          tier |-> tier,
          tier_4_overrides |-> IF tier_4_reasons # <<>> THEN List(tier_4_reasons) ELSE None])
    IN  IF Raised(sent) THEN calculate_risk_error(sent)
        ELSE [response |-> sent.ret,
              frame |-> [abom_data |-> abom_data, agency |-> agency, autonomy |-> autonomy,
                         persistence |-> persistence, scaffolding_mod |-> scaffolding_mod,
                         risk_score |-> risk_score, flops |-> flops, flagged |-> flagged,
                         tier |-> tier, tier_4_reasons |-> tier_4_reasons]]

\* a faulty variant of calculate_risk_tier: the capability-flags branch appends its reason and
\* leaves the tier alone
calculate_risk_tier_flags_keep_tier(abom_data, agency, autonomy, persistence, scaffolding_mod, risk_score, flops, flagged) ==
    LET over_flops == flops # None /\ GreaterEq(flops, SYSTEMIC_RISK_FLOPS_THRESHOLD)
        tier0 == determine_uart_tier(risk_score)
        tier1 == IF over_flops THEN 4 ELSE tier0
        reasons1 == IF over_flops THEN <<FlopsReason(flops)>> ELSE <<>>
    IN  calculate_risk_respond(abom_data, agency, autonomy, persistence, scaffolding_mod, risk_score,
            flops, flagged,
            tier1,
            IF flagged THEN Append(reasons1, FlagsReason) ELSE reasons1)

\* a faulty variant of calculate_risk_tier: the reasons list is not reset, so a second rule
\* overwrites the first reason
calculate_risk_tier_one_reason(abom_data, agency, autonomy, persistence, scaffolding_mod, risk_score, flops, flagged) ==
    LET over_flops == flops # None /\ GreaterEq(flops, SYSTEMIC_RISK_FLOPS_THRESHOLD)
        tier0 == determine_uart_tier(risk_score)
        tier1 == IF over_flops THEN 4 ELSE tier0
        reasons1 == IF over_flops THEN <<FlopsReason(flops)>> ELSE <<>>
    IN  calculate_risk_respond(abom_data, agency, autonomy, persistence, scaffolding_mod, risk_score,
            flops, flagged,
            IF flagged THEN 4 ELSE tier1,
            IF flagged THEN <<FlagsReason>> ELSE reasons1)

\* lines 257-272: the tier of the score, then the two overrides
calculate_risk_tier(abom_data, agency, autonomy, persistence, scaffolding_mod, risk_score, flops, flagged) ==
    LET over_flops == flops # None /\ GreaterEq(flops, SYSTEMIC_RISK_FLOPS_THRESHOLD)
        tier0 == determine_uart_tier(risk_score)
        tier1 == IF over_flops THEN 4 ELSE tier0
        reasons1 == IF over_flops THEN <<FlopsReason(flops)>> ELSE <<>>
    IN  calculate_risk_respond(abom_data, agency, autonomy, persistence, scaffolding_mod, risk_score,
            flops, flagged,
            IF flagged THEN 4 ELSE tier1,
            IF flagged THEN Append(reasons1, FlagsReason) ELSE reasons1)

\* lines 248-270: the calls that can raise, in the order the handler makes them
calculate_risk_scores(abom_data, agency, autonomy, persistence, scaffolding_mod, flops, flagged) ==
    IF AnyRaised(<<agency, autonomy, persistence, scaffolding_mod, flops, flagged>>)
    THEN calculate_risk_error(FirstRaised(<<agency, autonomy, persistence, scaffolding_mod, flops, flagged>>))
    ELSE calculate_risk_tier(abom_data, agency.ret, autonomy.ret, persistence.ret, scaffolding_mod.ret,
             calculate_risk_score(agency.ret, autonomy.ret, persistence.ret, scaffolding_mod.ret),
             flops.ret, flagged.ret)

\* lines 240-246: the required sections
calculate_risk_validate(abom_data, model_core, agency_profile, autonomy_leash, persistence_layer, scaffolding) ==
    IF ~Truthy(agency_profile)
    THEN [response |-> HTTPException(400, "Missing 'agency_profile' field"), frame |-> NoFrame]
    ELSE IF autonomy_leash = None \/ (autonomy_leash.t = "str" /\ ~Truthy(autonomy_leash))
    THEN [response |-> HTTPException(400, "Missing 'autonomy_leash' field"), frame |-> NoFrame]
    ELSE IF ~Truthy(persistence_layer)
    THEN [response |-> HTTPException(400, "Missing 'persistence_layer' field"), frame |-> NoFrame]
    ELSE calculate_risk_scores(abom_data,
             calculate_agency_score(agency_profile),
             calculate_autonomy_score(autonomy_leash),
             calculate_persistence_score(persistence_layer),
             calculate_scaffolding_modifier(scaffolding),
             extract_flops(model_core),
             check_tier4_capability_flags(agency_profile))

\* lines 233-238: abom_data.get(...) raises AttributeError unless abom_data is a dict
calculate_risk_sections(abom_data) ==
    IF abom_data.t # "dict" THEN calculate_risk_error(Raise("AttributeError"))
    ELSE calculate_risk_validate(abom_data,
             get(abom_data, "model_core", EmptyDict),
             get(abom_data, "agency_profile", EmptyDict),
             get(abom_data, "autonomy_leash", Str("")),
             get(abom_data, "persistence_layer", EmptyDict),
             get(abom_data, "scaffolding_inventory", EmptyDict))

\* lines 228-231: a JSONDecodeError is answered 400; any other exception of the parse
\* reaches the last except clause
calculate_risk_parsed(parsed) ==
    IF ~Raised(parsed) THEN calculate_risk_sections(parsed.ret)
    ELSE IF parsed.exc = "JSONDecodeError"
    THEN [response |-> HTTPException(400, "Invalid JSON format"), frame |-> NoFrame]
    ELSE calculate_risk_error(parsed)

calculate_risk(file) == calculate_risk_parsed(loads_decoded(file))

----------------------------------------------------------------------------
(* main.py:293-385: download_report, from the end of `await file.read()` to its response.  Each  *)
(* part gives the response and, where the status is 200, the handler's locals (frame).  *)

\* the except clauses (lines 382-385): an exception that is not an HTTPException
download_report_error(e) ==
    [response |-> HTTPException(500, "Error generating report: " \o e.exc), frame |-> NoFrame]

\* lines 348-380: the report and its response
download_report_respond(abom_data, agency, autonomy, persistence, scaffolding_mod, risk_score, flops, flagged, tier, tier_4_reasons) ==
    LET sent == JSONResponse(
        [abom_input |-> abom_data,
          risk_assessment |->
              [agency |-> agency,
               autonomy |-> autonomy,
               persistence |-> persistence,
               scaffolding_modifier |-> round(scaffolding_mod, 3),
               score |-> round(risk_score, 2),
               tier |-> tier,
               tier_description |-> <<"UART Tier", tier>>,
               tier_4_overrides |-> IF tier_4_reasons # <<>> THEN List(tier_4_reasons) ELSE None],
          formula |-> "R = A x U x e^P x scaffolding_modifier",
          tier_thresholds |->
              [Tier0 |-> "R < 10", Tier1 |-> "10 <= R < 25", Tier2 |-> "25 <= R < 50",
               Tier3 |-> "50 <= R < 100",
               Tier4 |-> "R >= 100 OR FLOPs >= 1e25 OR critical capability flags"]])
    IN  IF Raised(sent) THEN download_report_error(sent)
        ELSE [response |-> sent.ret,
              frame |-> [abom_data |-> abom_data, agency |-> agency, autonomy |-> autonomy,
                         persistence |-> persistence, scaffolding_mod |-> scaffolding_mod,
                         risk_score |-> risk_score, flops |-> flops, flagged |-> flagged,
                         tier |-> tier, tier_4_reasons |-> tier_4_reasons]]

\* lines 330-345: the tier of the score, then the two overrides
download_report_tier(abom_data, agency, autonomy, persistence, scaffolding_mod, risk_score, flops, flagged) ==
    LET over_flops == flops # None /\ GreaterEq(flops, SYSTEMIC_RISK_FLOPS_THRESHOLD)
        tier0 == determine_uart_tier(risk_score)
        tier1 == IF over_flops THEN 4 ELSE tier0
        reasons1 == IF over_flops THEN <<FlopsReason(flops)>> ELSE <<>>
    IN  download_report_respond(abom_data, agency, autonomy, persistence, scaffolding_mod, risk_score,
            flops, flagged,
            IF flagged THEN 4 ELSE tier1,
            IF flagged THEN Append(reasons1, FlagsReason) ELSE reasons1)

\* lines 321-343: the calls that can raise, in the order the handler makes them
download_report_scores(abom_data, agency, autonomy, persistence, scaffolding_mod, flops, flagged) ==
    IF AnyRaised(<<agency, autonomy, persistence, scaffolding_mod, flops, flagged>>)
    THEN download_report_error(FirstRaised(<<agency, autonomy, persistence, scaffolding_mod, flops, flagged>>))
    ELSE download_report_tier(abom_data, agency.ret, autonomy.ret, persistence.ret, scaffolding_mod.ret,
             calculate_risk_score(agency.ret, autonomy.ret, persistence.ret, scaffolding_mod.ret),
             flops.ret, flagged.ret)

\* lines 313-319: the required sections
download_report_validate(abom_data, model_core, agency_profile, autonomy_leash, persistence_layer, scaffolding) ==
    IF ~Truthy(agency_profile)
    THEN [response |-> HTTPException(400, "Missing 'agency_profile' field"), frame |-> NoFrame]
    ELSE IF autonomy_leash = None \/ (autonomy_leash.t = "str" /\ ~Truthy(autonomy_leash))
    THEN [response |-> HTTPException(400, "Missing 'autonomy_leash' field"), frame |-> NoFrame]
    ELSE IF ~Truthy(persistence_layer)
    THEN [response |-> HTTPException(400, "Missing 'persistence_layer' field"), frame |-> NoFrame]
    ELSE download_report_scores(abom_data,
             calculate_agency_score(agency_profile),
             calculate_autonomy_score(autonomy_leash),
             calculate_persistence_score(persistence_layer),
             calculate_scaffolding_modifier(scaffolding),
             extract_flops(model_core),
             check_tier4_capability_flags(agency_profile))

\* lines 306-311: abom_data.get(...) raises AttributeError unless abom_data is a dict
download_report_sections(abom_data) ==
    IF abom_data.t # "dict" THEN download_report_error(Raise("AttributeError"))
    ELSE download_report_validate(abom_data,
             get(abom_data, "model_core", EmptyDict),
             get(abom_data, "agency_profile", EmptyDict),
             get(abom_data, "autonomy_leash", Str("")),
             get(abom_data, "persistence_layer", EmptyDict),
             get(abom_data, "scaffolding_inventory", EmptyDict))

\* lines 301-304: a JSONDecodeError is answered 400; any other exception of the parse
\* reaches the last except clause
download_report_parsed(parsed) ==
    IF ~Raised(parsed) THEN download_report_sections(parsed.ret)
    ELSE IF parsed.exc = "JSONDecodeError"
    THEN [response |-> HTTPException(400, "Invalid JSON format"), frame |-> NoFrame]
    ELSE download_report_error(parsed)

download_report(file) == download_report_parsed(loads_decoded(file))

----------------------------------------------------------------------------
(* the uploaded documents *)

\* a section the document does not have
Absent == [t |-> "absent"]

Document(model_core, agency_profile, autonomy_leash, persistence_layer, scaffolding_inventory) ==
    LET section == [model_core |-> model_core,
                    agency_profile |-> agency_profile,
                    autonomy_leash |-> autonomy_leash,
                    persistence_layer |-> persistence_layer,
                    scaffolding_inventory |-> scaffolding_inventory]
    IN  Dict([k \in {x \in DOMAIN section : section[x] # Absent} |-> section[k]])

Tool(name, permission) == Dict([name |-> Str(name), permission |-> Str(permission)])

\* well-typed sections: every agency, autonomy and persistence score, every modifier, both overrides
ModelCores ==
    { Absent,
      Dict([training_flops |-> Number(20, 24)]),
      Dict([training_flops |-> Str("2.0e25")]),
      Dict([flops |-> Number(99, 23)]) }

AgencyProfiles ==
    { Dict([tools |-> EmptyList]),
      Dict([tools |-> List(<<Tool("search", "read")>>)]),
      Dict([tools |-> List(<<Tool("file_write", "write")>>)]),
      Dict([tools |-> List(<<Str("search"), Str("Exec_Shell")>>)]),
      Dict([tools |-> List(<<Str("search")>>), scope |-> Str("Critical systems")]),
      Dict([tools |-> List(<<Tool("weapon_sim", "read")>>)]),
      Dict([tools |-> List(<<Str("Self-Replication")>>)]),
      Dict([tools |-> List(<<Tool("search", "read")>>), capability_flags |-> List(<<Str("CBRN")>>)]),
      Dict([tools |-> EmptyList, capability_flags |-> List(<<Str("harmless"), Str("cbrn_access")>>)]) }

AutonomyLeashes ==
    { Str("HITL"), Str("hotl"), Dict([mode |-> Str("HOOTL")]) }

PersistenceLayers ==
    { Dict([memory_type |-> Str("none")]),
      Dict([memory_type |-> Str("session"), retention |-> Str("session")]),
      Dict([memory_type |-> Str("long-term"), retention |-> Str("permanent")]) }

ScaffoldingInventories ==
    { Absent,
      Dict([mcp_used |-> Bool(TRUE)]),
      Dict([sandboxed |-> Bool(TRUE)]),
      Dict([orchestrator |-> Str("MCP"), kill_switch |-> Bool(TRUE)]),
      Dict([sandboxed |-> Bool(TRUE), circuit_breaker |-> Bool(TRUE)]),
      Dict([mcp_used |-> Bool(TRUE), sandbox_type |-> Str("VM")]),
      Dict([mcp_used |-> Bool(TRUE), sandboxed |-> Bool(TRUE), circuit_breaker |-> Bool(TRUE)]) }

\* sections that are missing, empty, ill-typed or at an edge of a rule
OddModelCores ==
    { EmptyDict, None, Str("x"),
      Dict([training_flops |-> Number(1, 25)]),
      Dict([flops |-> Str("1e25")]),
      Dict([flops |-> Str("1.1E+25")]),
      Dict([flops |-> Str("99e-1")]),
      Dict([training_flops |-> Str("abc")]),
      Dict([training_flops |-> Str("abc"), flops |-> Number(2, 25)]),
      Dict([training_flops |-> Number(0, 0), flops |-> Number(2, 25)]),
      Dict([training_flops |-> Str(""), flops |-> Str("3e25")]),
      Dict([training_flops |-> List(<<Number(2, 25)>>)]),
      Dict([training_flops |-> EmptyList]),
      Dict([flops |-> EmptyList]),
      Dict([flops |-> Dict([value |-> Number(2, 25)])]),
      Dict([flops |-> None]),
      Dict([flops |-> Bool(TRUE)]),
      Dict([flops |-> Number(1, 400)]),
      Dict([flops |-> Number(0, 0)]) }

OddAgencyProfiles ==
    { Absent, EmptyDict, EmptyList, None, Str("abc"), List(<<Str("search")>>),
      Dict([scope |-> Str("read-only")]),
      Dict([capability_flags |-> List(<<Str("cbrn")>>)]),
      Dict([tools |-> None]),
      Dict([tools |-> Number(5, 0)]),
      Dict([tools |-> Number(0, 0)]),
      Dict([tools |-> Str("exec")]),
      Dict([tools |-> Dict([write_file |-> Bool(TRUE)])]),
      Dict([tools |-> List(<<Dict([name |-> Number(5, 0)])>>)]),
      Dict([tools |-> List(<<Dict([name |-> Str("x"), permission |-> None])>>)]),
      Dict([tools |-> List(<<Dict([name |-> Str("x"), permission |-> Str("WRITE")])>>)]),
      Dict([tools |-> List(<<Dict([permission |-> Str("read")])>>)]),
      Dict([tools |-> List(<<Number(5, 0)>>)]),
      Dict([tools |-> List(<<Str("cbrn"), Dict([name |-> Number(5, 0)])>>)]),
      Dict([tools |-> List(<<Str("search")>>), scope |-> Number(5, 0)]),
      Dict([tools |-> List(<<Str("search")>>), scope |-> Str("State-Changing")]),
      Dict([tools |-> List(<<Str("Nu-Clear")>>)]),
      Dict([tools |-> List(<<Tool("critical-infra", "read")>>)]),
      Dict([tools |-> List(<<Tool("Critical_Infra", "read")>>)]),
      Dict([tools |-> List(<<Tool("file_write", "read")>>)]),
      Dict([tools |-> List(<<Str("search"), Tool("db", "Delete"), Str("bio_weapon")>>)]),
      Dict([tools |-> List(<<Str("search")>>), scope |-> Str("Dangerous")]),
      Dict([tools |-> EmptyList, scope |-> Number(5, 0)]),
      Dict([tools |-> List(<<Str("search")>>), capability_flags |-> Str("cbrn")]),
      Dict([tools |-> List(<<Str("search")>>), capability_flags |-> List(<<Number(5, 0)>>)]) }

OddAutonomyLeashes ==
    { Absent, None, Str(""), Str("other"), EmptyDict, EmptyList, Number(0, 0), Bool(FALSE),
      Dict([mode |-> Str("hotl")]),
      Dict([mode |-> Number(5, 0)]),
      Dict([mode |-> None]) }

OddPersistenceLayers ==
    { Absent, EmptyDict, None, Str("abc"), Number(1, 0),
      Dict([retention |-> Str("long")]),
      Dict([memory_type |-> Str("Vector_DB")]),
      Dict([memory_type |-> Str("none"), retention |-> Str("permanent")]),
      Dict([memory_type |-> Str("persistent"), retention |-> Str("short")]),
      Dict([memory_type |-> Str(""), retention |-> Str("session")]),
      Dict([memory_type |-> Str("Ephemeral"), retention |-> Str("permanent")]),
      Dict([memory_type |-> Str("database"), retention |-> Str("Session-Only")]),
      Dict([memory_type |-> Str("session"), retention |-> Str("long")]),
      Dict([memory_type |-> Str("session")]),
      Dict([memory_type |-> Str("persistent"), retention |-> Str("weekly")]),
      Dict([memory_type |-> Str("database"), retention |-> Str("weekly")]),
      Dict([memory_type |-> Number(5, 0)]),
      Dict([memory_type |-> Str("session"), retention |-> None]),
      Dict([memory_type |-> Str("none"), retention |-> Number(5, 0)]) }

OddScaffoldingInventories ==
    { EmptyDict, None, Str("x"),
      Dict([orchestrator |-> Number(5, 0)]),
      Dict([mcp_used |-> Bool(TRUE), orchestrator |-> Number(5, 0)]),
      Dict([mcp_used |-> Str("yes")]),
      Dict([mcp_used |-> Bool(FALSE), orchestrator |-> Str("langchain")]),
      Dict([sandbox_type |-> Number(5, 0)]),
      Dict([sandbox_type |-> None]),
      Dict([sandboxed |-> Number(0, 0), sandbox_type |-> Str("none")]),
      Dict([sandboxed |-> Bool(TRUE), sandbox_type |-> Number(5, 0)]),
      Dict([circuit_breaker |-> Bool(FALSE), kill_switch |-> Bool(FALSE)]),
      Dict([circuit_breaker |-> Str("")]),
      Dict([kill_switch |-> Number(1, 0)]) }

\* Scenario 1 and Scenario 3 of the specification
Scenario1 ==
    Document(Absent, Dict([tools |-> EmptyList]), Str("HITL"), Dict([memory_type |-> Str("none")]), Absent)

Scenario3 ==
    Document(Absent, Dict([tools |-> List(<<Tool("file_write", "write")>>)]), Str("HOOTL"),
             Dict([memory_type |-> Str("long-term"), retention |-> Str("permanent")]), Absent)

\* a scenario with one section replaced
With(doc, key, section) ==
    Dict([k \in (IF section = Absent THEN DOMAIN doc.d \ {key} ELSE DOMAIN doc.d \cup {key}) |->
             IF k = key THEN section ELSE doc.d[k]])

Documents ==
    { Document(mc, ap, al, pl, sc) :
          mc \in ModelCores, ap \in AgencyProfiles, al \in AutonomyLeashes,
          pl \in PersistenceLayers, sc \in ScaffoldingInventories }
    \cup { With(doc, "model_core", x) : doc \in {Scenario1, Scenario3}, x \in OddModelCores }
    \cup { With(doc, "agency_profile", x) : doc \in {Scenario1, Scenario3}, x \in OddAgencyProfiles }
    \cup { With(doc, "autonomy_leash", x) : doc \in {Scenario1, Scenario3}, x \in OddAutonomyLeashes }
    \cup { With(doc, "persistence_layer", x) : doc \in {Scenario1, Scenario3}, x \in OddPersistenceLayers }
    \cup { With(doc, "scaffolding_inventory", x) : doc \in {Scenario1, Scenario3}, x \in OddScaffoldingInventories }
    \cup { Document(Absent, Absent, Absent, Absent, Absent),
           Document(Absent, Absent, None, Absent, Absent),
           Document(Absent, Str("abc"), Str("HITL"), Absent, Absent),
           Document(Absent, Str("abc"), Str(""), Absent, Absent) }

\* JSON texts that are not an object
NonObjects == { EmptyList, List(<<Scenario1>>), Str("HITL"), Number(5, 0), None, Bool(TRUE) }

Files ==
    { [kind |-> "bytes"], [kind |-> "text"] }
    \cup { [kind |-> "json", doc |-> d] : d \in Documents \cup NonObjects }

\* the files of the concurrent clients: one of each outcome
CoreFiles ==
    { [kind |-> "text"],
      [kind |-> "json", doc |-> Scenario1],
      [kind |-> "json", doc |-> With(Scenario1, "persistence_layer", Absent)],
      [kind |-> "json", doc |-> With(Scenario1, "model_core", Dict([training_flops |-> Str("2.0e25")]))],
      [kind |-> "json", doc |-> With(Scenario3, "agency_profile", Dict([tools |-> List(<<Str("cbrn_lab")>>)]))],
      [kind |-> "json", doc |-> With(Scenario3, "scaffolding_inventory", Dict([sandbox_type |-> None]))] }

Endpoints == {"/api/calculate-risk", "/api/download-report"}

----------------------------------------------------------------------------
(* the state machine *)

\* the number of request slots of the server
NumRequests == 2

Requests == 1..NumRequests

Idle == [pc |-> "idle"]

NoCall == [fn |-> "none"]

\* scores, in millionths, at and around the tier boundaries
ProbeScores ==
    { 0, 1, 5 * ONE - 1, 5 * ONE, 5 * ONE + 1, 20 * ONE - 1, 20 * ONE, 20 * ONE + 1,
      50 * ONE - 1, 50 * ONE, 50 * ONE + 1, 133 * ONE }

Init ==
    /\ requests = [r \in Requests |-> Idle]
    /\ call = NoCall
    /\ TIER_4_CAPABILITY_FLAGS =
           <<"self-replication", "self_replication", "autonomous_replication",
             "cbrn", "cbrn_access", "bioweapon", "chemical_weapon", "nuclear",
             "autonomous_weapons", "critical_infrastructure_control">>
    /\ SYSTEMIC_RISK_FLOPS_THRESHOLD = Number(1, 25)

Globals == <<TIER_4_CAPABILITY_FLAGS, SYSTEMIC_RISK_FLOPS_THRESHOLD>>

\* a client posts a file to an endpoint; the handler starts and waits in `await file.read()`
Post(r, endpoint, file) ==
    /\ requests[r].pc = "idle"
    /\ requests' = [requests EXCEPT ![r] = [pc |-> "reading", endpoint |-> endpoint, file |-> file]]
    /\ UNCHANGED <<call, Globals>>

\* the sequential driver (tests/test_runner.py): one request at a time, on one connection
PostAlone ==
    /\ \A q \in Requests : requests[q].pc = "idle"
    /\ call = NoCall
    /\ \E endpoint \in Endpoints, file \in Files : Post(1, endpoint, file)

\* concurrent clients
PostAny(r) ==
    \E endpoint \in Endpoints, file \in CoreFiles : Post(r, endpoint, file)

\* a faulty variant of CalculateRisk: the handler narrows the module's flag list in place
CalculateRisk_narrowing(r) ==
    /\ requests[r].pc = "reading"
    /\ requests[r].endpoint = "/api/calculate-risk"
    /\ LET done == calculate_risk(requests[r].file)
       IN  requests' = [requests EXCEPT ![r] =
               [pc |-> "done", endpoint |-> requests[r].endpoint, file |-> requests[r].file,
                response |-> done.response, frame |-> done.frame]]
    /\ TIER_4_CAPABILITY_FLAGS' = SubSeq(TIER_4_CAPABILITY_FLAGS, 1, 3)
    /\ UNCHANGED <<call, SYSTEMIC_RISK_FLOPS_THRESHOLD>>

\* the read completes and calculate_risk runs to its response
CalculateRisk(r) ==
    /\ requests[r].pc = "reading"
    /\ requests[r].endpoint = "/api/calculate-risk"
    /\ LET done == calculate_risk(requests[r].file)
       IN  requests' = [requests EXCEPT ![r] =
               [pc |-> "done", endpoint |-> requests[r].endpoint, file |-> requests[r].file,
                response |-> done.response, frame |-> done.frame]]
    /\ UNCHANGED <<call, Globals>>

\* the read completes and download_report runs to its response
DownloadReport(r) ==
    /\ requests[r].pc = "reading"
    /\ requests[r].endpoint = "/api/download-report"
    /\ LET done == download_report(requests[r].file)
       IN  requests' = [requests EXCEPT ![r] =
               [pc |-> "done", endpoint |-> requests[r].endpoint, file |-> requests[r].file,
                response |-> done.response, frame |-> done.frame]]
    /\ UNCHANGED <<call, Globals>>

\* the client has its response; the slot is free again
Collect(r) ==
    /\ requests[r].pc = "done"
    /\ requests' = [requests EXCEPT ![r] = Idle]
    /\ UNCHANGED <<call, Globals>>

\* a direct call of the classifier
Classify ==
    /\ \A q \in Requests : requests[q].pc = "idle"
    /\ call = NoCall
    /\ \E s \in ProbeScores :
           call' = [fn |-> "determine_uart_tier", risk_score |-> s, ret |-> determine_uart_tier(s)]
    /\ UNCHANGED <<requests, Globals>>

Forget ==
    /\ call # NoCall
    /\ call' = NoCall
    /\ UNCHANGED <<requests, Globals>>

Next ==
    \/ PostAlone
    \/ \E r \in Requests : CalculateRisk(r)
    \/ \E r \in Requests : DownloadReport(r)
    \/ \E r \in Requests : Collect(r)
    \/ Classify
    \/ Forget

Spec == Init /\ [][Next]_vars

ConcNext ==
    \/ \E r \in Requests : PostAny(r)
    \/ \E r \in Requests : CalculateRisk(r)
    \/ \E r \in Requests : DownloadReport(r)
    \/ \E r \in Requests : Collect(r)

ConcSpec == Init /\ [][ConcNext]_vars

----------------------------------------------------------------------------
(* the claims *)

Done(r) == requests[r].pc = "done"

Status(r) == requests[r].response.status

\* a calculate_risk request that was answered
Calculated(r) == Done(r) /\ requests[r].endpoint = "/api/calculate-risk"

\* a calculate_risk request that was answered 200
Scored(r) == Calculated(r) /\ Status(r) = 200

\* the result object of a scored request
Result(r) == requests[r].response.content

\* the FLOPs rule: the value read from model_core parses to a number >= 1e25
FlopsRule(r) ==
    /\ requests[r].frame.flops # None
    /\ GreaterEq(requests[r].frame.flops, Number(1, 25))

\* the capability-flags rule
FlagsRule(r) == requests[r].frame.flagged

\* the tier intervals of the specification, on millionths
TierOf(s) ==
    CASE s = 0 -> 0
      [] 0 < s /\ s < 5 * ONE -> 1
      [] 5 * ONE <= s /\ s < 20 * ONE -> 2
      [] 20 * ONE <= s /\ s < 50 * ONE -> 3
      [] s >= 50 * ONE -> 4

\* C1: in every 200 response of calculate_risk the tier is 4 when the FLOPs rule or the
\* capability-flags rule fires, it is the tier of the computed score when neither fires,
\* and it is never lower than the tier of the score.
C1_OverrideForcesTier4 ==
    \A r \in Requests : Scored(r) =>
        LET scoreTier == TierOf(requests[r].frame.risk_score)
        IN  /\ (FlopsRule(r) \/ FlagsRule(r)) => Result(r).tier = 4
            /\ ~(FlopsRule(r) \/ FlagsRule(r)) => Result(r).tier = scoreTier
            /\ Result(r).tier >= scoreTier

\* C1 witness: an override forced tier 4 on a document whose score alone gives tier 1
C1_Witness ==
    \E r \in Requests :
        /\ Scored(r)
        /\ FlopsRule(r) \/ FlagsRule(r)
        /\ TierOf(requests[r].frame.risk_score) = 1
        /\ Result(r).tier = 4

\* C2: in every 200 response of calculate_risk, tier_4_overrides is null exactly when no
\* rule fired; otherwise it is a list with one reason per fired rule, the FLOPs reason first.
C2_OverrideReasons ==
    \A r \in Requests : Scored(r) =>
        LET overrides == Result(r).tier_4_overrides
            expected == (IF FlopsRule(r) THEN 1 ELSE 0) + (IF FlagsRule(r) THEN 1 ELSE 0)
        IN  /\ overrides = None <=> expected = 0
            /\ expected > 0 =>
                  /\ overrides.t = "list"
                  /\ Len(overrides.xs) = expected
                  /\ FlopsRule(r) => "flops" \in DOMAIN overrides.xs[1]
                  /\ FlagsRule(r) => overrides.xs[expected] = FlagsReason

\* C2 witness: both rules fired and the response lists two reasons
C2_Witness ==
    \E r \in Requests :
        /\ Scored(r)
        /\ FlopsRule(r) /\ FlagsRule(r)
        /\ Len(Result(r).tier_4_overrides.xs) = 2

C4_Scenario1ScoresZero ==
    \A r \in Requests : (Calculated(r) /\ requests[r].file = [kind |-> "json", doc |-> Scenario1]) =>
        /\ Status(r) = 200
        /\ Result(r).agency = 1 /\ Result(r).autonomy = 1 /\ Result(r).persistence = 0
        /\ Result(r).score = 0 /\ Result(r).tier = 0

\* C4 as amended: Scenario 1 yields agency 1, autonomy 1, persistence 0, score 1.0 and tier 1
C4_Scenario1ScoresOne ==
    \A r \in Requests : (Calculated(r) /\ requests[r].file = [kind |-> "json", doc |-> Scenario1]) =>
        /\ Status(r) = 200
        /\ Result(r).agency = 1 /\ Result(r).autonomy = 1 /\ Result(r).persistence = 0
        /\ Result(r).score = ONE /\ Result(r).tier = 1

\* C4 witness: Scenario 1 was scored
C4_Witness ==
    \E r \in Requests : Scored(r) /\ requests[r].file = [kind |-> "json", doc |-> Scenario1]

\* the three controls of a scaffolding inventory, as the specification words them
McpIndicated(sc) ==
    \/ Truthy(get(sc, "mcp_used", None))
    \/ get(sc, "orchestrator", Str("")).t = "str" /\ lower(get(sc, "orchestrator", Str("")).s) = "mcp"

SandboxIndicated(sc) ==
    \/ Truthy(get(sc, "sandboxed", Bool(FALSE)))
    \/ lower(get(sc, "sandbox_type", Str("")).s) \in {"ephemeral", "isolated", "container", "vm"}

BreakerIndicated(sc) ==
    Truthy(get(sc, "circuit_breaker", Bool(FALSE))) \/ Truthy(get(sc, "kill_switch", Bool(FALSE)))

\* the scaffolding inventory of an answered request's document
Scaffolding(r) == get(requests[r].frame.abom_data, "scaffolding_inventory", EmptyDict)

\* C5: the modifier calculate_scaffolding_modifier returned lies in [0.7, 1.0] and is the
\* product of 0.9, 0.85 and 0.9 over the controls present, 0.7 when all three are.
C5_ModifierFloor ==
    \A r \in Requests : (Done(r) /\ Status(r) = 200) =>
        LET m == requests[r].frame.scaffolding_mod
            mcp == McpIndicated(Scaffolding(r))
            sandbox == SandboxIndicated(Scaffolding(r))
            breaker == BreakerIndicated(Scaffolding(r))
        IN  /\ 700000 <= m /\ m <= 1000000
            /\ m = CASE mcp /\ sandbox /\ breaker -> 700000
                     [] mcp /\ sandbox /\ ~breaker -> 765000
                     [] mcp /\ ~sandbox /\ breaker -> 810000
                     [] ~mcp /\ sandbox /\ breaker -> 765000
                     [] mcp /\ ~sandbox /\ ~breaker -> 900000
                     [] ~mcp /\ sandbox /\ ~breaker -> 850000
                     [] ~mcp /\ ~sandbox /\ breaker -> 900000
                     [] OTHER -> 1000000

\* C5 witness: all three controls are present and the modifier is exactly 0.7
C5_Witness ==
    \E r \in Requests :
        /\ Done(r) /\ Status(r) = 200
        /\ McpIndicated(Scaffolding(r)) /\ SandboxIndicated(Scaffolding(r))
        /\ BreakerIndicated(Scaffolding(r))
        /\ requests[r].frame.scaffolding_mod = 700000

\* the document of an uploaded JSON object, as json.loads gives it
IsObject(file) == file.kind = "json" /\ file.doc.t = "dict"

Section(file, key, default) == get(Loaded(file.doc), key, default)

\* missing or empty
Empty(v) == v \in {Absent, EmptyDict, EmptyList, Str("")}

AgencyMissing(file) == Empty(Section(file, "agency_profile", Absent))

LeashMissing(file) == Section(file, "autonomy_leash", Absent) \in {Absent, None, Str("")}

PersistenceMissing(file) == Empty(Section(file, "persistence_layer", Absent))

\* the document passes the three required-section checks
Accepted(file) ==
    /\ IsObject(file)
    /\ Truthy(Section(file, "agency_profile", EmptyDict))
    /\ ~LeashMissing(file)
    /\ Truthy(Section(file, "persistence_layer", EmptyDict))

\* C6 as claimed: calculate_risk answers 400 to a body that is not valid JSON and to a
\* document whose agency_profile, autonomy_leash or persistence_layer is missing or empty,
\* naming the first failing section, and no error response carries score fields.
C6_Answers400 ==
    \A r \in Requests : Calculated(r) =>
        LET file == requests[r].file
            response == requests[r].response
        IN  /\ file.kind # "json" =>
                  response = HTTPException(400, "Invalid JSON format")
            /\ (IsObject(file) /\ AgencyMissing(file)) =>
                  response = HTTPException(400, "Missing 'agency_profile' field")
            /\ (IsObject(file) /\ ~AgencyMissing(file) /\ Truthy(Section(file, "agency_profile", None))
                    /\ LeashMissing(file)) =>
                  response = HTTPException(400, "Missing 'autonomy_leash' field")
            /\ (IsObject(file) /\ Truthy(Section(file, "agency_profile", None))
                    /\ ~LeashMissing(file) /\ PersistenceMissing(file)) =>
                  response = HTTPException(400, "Missing 'persistence_layer' field")
            /\ response.status # 200 => DOMAIN response = {"status", "detail"}

\* the value extract_flops reads: training_flops, or flops when that is absent or falsy
FlopsValue(file) ==
    LET model_core == Section(file, "model_core", EmptyDict)
    IN  IF Truthy(get(model_core, "training_flops", None))
        THEN get(model_core, "training_flops", None)
        ELSE get(model_core, "flops", None)

\* the other extractors score the document without an exception
ScoresOtherwise(file) ==
    ~AnyRaised(<<calculate_agency_score(Section(file, "agency_profile", EmptyDict)),
                 calculate_autonomy_score(Section(file, "autonomy_leash", Str(""))),
                 calculate_persistence_score(Section(file, "persistence_layer", EmptyDict)),
                 calculate_scaffolding_modifier(Section(file, "scaffolding_inventory", EmptyDict)),
                 check_tier4_capability_flags(Section(file, "agency_profile", EmptyDict))>>)

\* a number, or a string that parses to one
Parses(v) == v.t = "number" \/ (v.t = "str" /\ ~Raised(float_of_str(v.s)))

\* a non-numeric string, a list or a mapping
Unparsable(v) == (v.t = "str" /\ Raised(float_of_str(v.s))) \/ v.t \in {"list", "dict"}

HasFlopsReason(response) ==
    /\ response.content.tier_4_overrides # None
    /\ "flops" \in DOMAIN response.content.tier_4_overrides.xs[1]

\* C7 as claimed: in an accepted document a FLOPs value that is a number or numeric string
\* >= 1e25 fires the override, and a value that does not parse to a number (a non-numeric
\* string, a list, a mapping) is treated as absent: no FLOPs override, and a 200 response.
C7_UnparsableFlopsAbsent ==
    \A r \in Requests :
        (/\ Calculated(r)
         /\ Accepted(requests[r].file)
         /\ Section(requests[r].file, "model_core", EmptyDict).t = "dict"
         /\ ScoresOtherwise(requests[r].file)) =>
            LET v == FlopsValue(requests[r].file)
                response == requests[r].response
            IN  /\ (Parses(v) /\ GreaterEq(float(v).ret, Number(1, 25))) =>
                      response.status = 200 /\ HasFlopsReason(response)
                /\ Unparsable(v) =>
                      response.status = 200 /\ ~HasFlopsReason(response)

\* C8 as claimed: a document that passes the three required-section checks ends with a
\* 200 result whatever the types of the fields its extractors read (model_core's FLOPs
\* value, which C7 is about, aside).
C8_WrongTypesDefaulted ==
    \A r \in Requests :
        (/\ Calculated(r)
         /\ Accepted(requests[r].file)
         /\ ~Raised(extract_flops(Section(requests[r].file, "model_core", EmptyDict)))) =>
            Status(r) = 200

\* the answers of the two handlers to the file of request r: the one the request got and
\* the one the other handler gives
CalcAnswer(r) ==
    IF requests[r].endpoint = "/api/calculate-risk" THEN requests[r].response
    ELSE calculate_risk(requests[r].file).response

ReportAnswer(r) ==
    IF requests[r].endpoint = "/api/download-report" THEN requests[r].response
    ELSE download_report(requests[r].file).response

ScoreFields == {"agency", "autonomy", "persistence", "scaffolding_modifier", "score", "tier", "tier_4_overrides"}

\* C9 as claimed: on every body download_report and calculate_risk agree: they answer with
\* the same status, a validation failure is rejected with the same status and detail, and
\* when they accept, the report's risk_assessment carries the fields of the calculate_risk
\* result and abom_input is the submitted document.
C9_EndpointsAgree ==
    \A r \in Requests : Done(r) =>
        LET calc == CalcAnswer(r)
            report == ReportAnswer(r)
        IN  /\ calc.status = report.status
            /\ (calc.status = 400 \/ report.status = 400) => calc = report
            /\ (calc.status = 200 /\ report.status = 200) =>
                  /\ DOMAIN calc.content = ScoreFields
                  /\ \A f \in ScoreFields : report.content.risk_assessment[f] = calc.content[f]
                  /\ report.content.abom_input = Loaded(requests[r].file.doc)

\* C10: requests answered on the same endpoint for the same file have the same response,
\* whatever ran in between, and the module's globals are never changed.
C10_Deterministic ==
    /\ \A r1, r2 \in Requests :
           (/\ Done(r1) /\ Done(r2)
            /\ requests[r1].endpoint = requests[r2].endpoint
            /\ requests[r1].file = requests[r2].file) =>
               requests[r1].response = requests[r2].response
    /\ Len(TIER_4_CAPABILITY_FLAGS) = 10
    /\ SYSTEMIC_RISK_FLOPS_THRESHOLD = Number(1, 25)

\* C10 witness: two requests for the same file were answered 200 with an override
C10_Witness ==
    \E r1, r2 \in Requests :
        /\ r1 # r2 /\ Done(r1) /\ Done(r2)
        /\ requests[r1].endpoint = requests[r2].endpoint
        /\ requests[r1].file = requests[r2].file
        /\ Status(r1) = 200
        /\ requests[r1].frame.tier_4_reasons # <<>>

\* the name a well-typed tool entry is scanned under, lower-cased
ScannedName(tool) ==
    IF tool.t = "str" THEN lower(tool.s)
    ELSE IF tool.t = "dict" THEN lower(get(tool, "name", Str("")).s)
    ELSE ""

\* a state-changing signal: a string entry holding a keyword, a structured entry whose
\* permission is a keyword, or a scope naming state changes
StateChangingSignal(tools, scope) ==
    \/ \E i \in 1..Len(tools) :
           \/ /\ tools[i].t = "str"
              /\ \E k \in 1..Len(StateChangingKeywords) :
                     Contains(StateChangingKeywords[k], lower(tools[i].s))
           \/ /\ tools[i].t = "dict"
              /\ \E k \in 1..Len(StateChangingKeywords) :
                     lower(get(tools[i], "permission", Str("")).s) = StateChangingKeywords[k]
    \/ Contains("state-changing", lower(scope))
    \/ Contains("state changing", lower(scope))

\* a critical-capability signal as C11 words it: names are compared with `_` and `-` removed
StrippedCriticalSignal(tools, scope) ==
    \/ \E i \in 1..Len(tools), k \in 1..Len(CriticalKeywords) :
           Contains(Stripped(CriticalKeywords[k]), Stripped(ScannedName(tools[i])))
    \/ Contains("critical", lower(scope))
    \/ Contains("dangerous", lower(scope))

\* the agency_profile of a scored request, when its tools value is a list (or absent)
ToolsOf(r) == get(Section(requests[r].file, "agency_profile", EmptyDict), "tools", EmptyList)

ScopeOf(r) == get(Section(requests[r].file, "agency_profile", EmptyDict), "scope", Str("")).s

\* C11 as claimed: the agency score is 1 when the tools list is empty or absent; otherwise
\* 6 if a critical-capability signal fired (a tool name that, lower-cased and with `_`/`-`
\* removed before comparison, contains a critical keyword, or a scope containing "critical"
\* or "dangerous"), else 4 if a state-changing signal fired, else 2.
C11_AgencyByStrippedNames ==
    \A r \in Requests :
        (Scored(r) /\ ToolsOf(r).t = "list") =>
            requests[r].frame.agency =
                IF ToolsOf(r) = EmptyList THEN 1
                ELSE IF StrippedCriticalSignal(ToolsOf(r).xs, ScopeOf(r)) THEN 6
                ELSE IF StateChangingSignal(ToolsOf(r).xs, ScopeOf(r)) THEN 4
                ELSE 2

\* the persistence_layer of the document of request r
LayerOf(r) == Section(requests[r].file, "persistence_layer", EmptyDict)

\* a field of the layer, lower-cased; "" when the field is absent
LayerField(r, key) == lower(get(LayerOf(r), key, Str("")).s)

\* the rule of the persistence extractor, on lower-cased values
PersistenceRule(no_memory, memory_type, retention) ==
    IF no_memory \/ memory_type \in {"none", "ephemeral", "temporary"} THEN 0
    ELSE IF retention \in {"session", "session-only", "temporary", "short"} THEN 1
    ELSE IF retention \in {"cross-session", "cross_session", "long-term", "long_term", "long",
                           "permanent"} THEN 2
    ELSE IF memory_type \in {"long-term", "long_term", "long", "persistent", "vector-db",
                             "vector_db"} THEN 2
    ELSE IF memory_type = "session" THEN 1
    ELSE 0

\* C12 as claimed: the persistence score is 0 when memory_type is absent or one of none,
\* ephemeral, temporary; otherwise a recognized retention decides alone; only when
\* retention is unrecognized does memory_type decide.
C12_AbsentMemoryScoresZero ==
    \A r \in Requests :
        (Scored(r) /\ LayerOf(r).t = "dict") =>
            requests[r].frame.persistence =
                PersistenceRule("memory_type" \notin DOMAIN LayerOf(r).d,
                                LayerField(r, "memory_type"), LayerField(r, "retention"))

\* C12: the persistence score is 0 when memory_type is absent, empty or one of none,
\* ephemeral, temporary, whatever retention is; otherwise a recognized retention decides
\* alone; only when retention is unrecognized does memory_type decide. The result is
\* always 0, 1 or 2.
C12_EmptyMemoryScoresZero ==
    \A r \in Requests :
        (Scored(r) /\ LayerOf(r).t = "dict") =>
            /\ requests[r].frame.persistence =
                   PersistenceRule(LayerField(r, "memory_type") = "",
                                   LayerField(r, "memory_type"), LayerField(r, "retention"))
            /\ requests[r].frame.persistence \in {0, 1, 2}

\* C12 witness: a recognized retention decided against what memory_type alone would give
C12_Witness ==
    \E r \in Requests :
        /\ Scored(r) /\ LayerOf(r).t = "dict"
        /\ LayerField(r, "memory_type") = "persistent"
        /\ LayerField(r, "retention") = "short"
        /\ requests[r].frame.persistence = 1

====
